---- MODULE Spec2Model ----
(***************************************************************************)
(* A model of the EBS storage backend of volplugin                         *)
(* (storage/backend/ebs): the driver's public operations, the four         *)
(* poll-until-state-or-timeout synchronizers, the device allocator and the *)
(* tag-based identity resolver, together with the remote block-storage     *)
(* service and the local OS they act on.                                   *)
(*                                                                         *)
(* Time is counted in units of 100 ms.  Remote and OS calls are            *)
(* instantaneous; their outcomes are chosen by the environment.            *)
(***************************************************************************)
EXTENDS Integers, Sequences, FiniteSets, TLC

\* ------------------------------------------------------------ bounds
\* remote volume ids the service can hand out
MaxVols == 2
\* volumes the callers of one run create
MaxCreates == 1
\* tagged volumes other hosts hold (under other names) in the same region
MaxForeign == 6
\* the caller's do.Timeout, in units of 100 ms: for Create and Destroy, and
\* for the operations that attach and detach
MaxTimeout == 5
ShortTimeout == 2
\* the timeouts a synchronizer called on its own is given, in units of 100 ms
MaxSyncTimeout == 16
\* volumes the service creates when only Create and Destroy are called
MaxNameCreates == 2
\* the longest run of a format command, in units of time
MaxRun == 3
\* the longest volume name MountPath is called with on its own
MaxNameLen == 4
\* the longest format-command template of the enumerated ones
MaxTemplateLen == 4
\* cap on the OS unmount calls counted within one Unmount invocation
MaxUnmountCalls == 5

\* ------------------------------------------------- program constants
\* 1024 * 1024 * 1024
gigabyteAsBytes == 1073741824
\* MaxResults of the DescribeTags request
MaxResults == 6
\* 'a' and 'z', the bounds of the device-letter scan
FirstDevLetter == 97
EndDevLetter == 122
\* the unmount retry limit
MaxRetries == 3
\* poll intervals, in units of 100 ms
CreatePollBase == 5
AttachPoll == 1
DetachPoll == 1
DeletePoll == 5

Alphabet ==
  << "a", "b", "c", "d", "e", "f", "g", "h", "i", "j", "k", "l", "m",
     "n", "o", "p", "q", "r", "s", "t", "u", "v", "w", "x", "y", "z" >>

\* fmt.Sprintf("%c", dev) for a lowercase letter code
Chr(code) == Alphabet[code - 96]

\* fmt.Sprintf("/dev/xvd%c", dev)
BlockDevName(code) == "/dev/xvd" \o Chr(code)

NoDev == ""
NoVol == 0
Nil == "nil"

\* ------------------------------------------------------ pure helpers
RECURSIVE SeqToSet(_)
SeqToSet(s) == IF s = << >> THEN {} ELSE {Head(s)} \cup SeqToSet(Tail(s))

\* an inner loop that leaves after the first mapping
UsableFirstOnly(blockDev, mappings) ==
  mappings = << >> \/ mappings[1].DeviceName # blockDev

\* the inner loop of findFreeBlockDevice: blockDev is the name of no mapping
Usable(blockDev, mappings) ==
  \A i \in 1..Len(mappings) : mappings[i].DeviceName # blockDev

errNoFreeDevice == "failed to find free block device"

RECURSIVE ScanFreeBlockDevice(_, _)
ScanFreeBlockDevice(dev, mappings) ==
  IF dev < EndDevLetter
    THEN IF Usable(BlockDevName(dev), mappings)
           THEN [dev |-> BlockDevName(dev), err |-> Nil]
           ELSE ScanFreeBlockDevice(dev + 1, mappings)
    ELSE [dev |-> NoDev, err |-> errNoFreeDevice]

findFreeBlockDevice(mappings) == ScanFreeBlockDevice(FirstDevLetter, mappings)

errNoBlockDevice == "failed to find volume in attached volumes"

RECURSIVE findBlockVolumeBlockDevice(_, _)
findBlockVolumeBlockDevice(mappings, volume) ==
  IF mappings = << >>
    THEN [dev |-> NoDev, err |-> errNoBlockDevice]
    ELSE IF Head(mappings).VolumeId = volume
           THEN [dev |-> Head(mappings).DeviceName, err |-> Nil]
           ELSE findBlockVolumeBlockDevice(Tail(mappings), volume)


\* getVolumeSizeInGB: the size in whole gigabytes, or an error
errMinSize == "the minimum volume size is 1 GB"
errWholeGB == "volume size can only be provided as whole gigabytes"

\* a size check that rounds down instead of refusing
getVolumeSizeInGBRounded(size) ==
  IF size < gigabyteAsBytes
    THEN [gb |-> 0, err |-> errMinSize]
    ELSE [gb |-> size \div gigabyteAsBytes, err |-> Nil]

getVolumeSizeInGB(size) ==
  IF size < gigabyteAsBytes
    THEN [gb |-> 0, err |-> errMinSize]
    ELSE IF (size % gigabyteAsBytes) # 0
           THEN [gb |-> 0, err |-> errWholeGB]
           ELSE [gb |-> size \div gigabyteAsBytes, err |-> Nil]

\* strings the code takes apart are sequences of one-character strings
Contains(s, c) == \E i \in 1..Len(s) : s[i] = c

ContainsDotDot(s) == \E i \in 1..(Len(s) - 1) : s[i] = "." /\ s[i + 1] = "."

IndexOf(s, c) ==
  IF Contains(s, c) THEN CHOOSE i \in 1..Len(s) :
                           s[i] = c /\ \A j \in 1..(i - 1) : s[j] # c
                    ELSE 0

\* strings.SplitN(s, "/", 2)
SplitN2(s) ==
  IF Contains(s, "/")
    THEN << SubSeq(s, 1, IndexOf(s, "/") - 1),
            SubSeq(s, IndexOf(s, "/") + 1, Len(s)) >>
    ELSE << s >>

errTwoParts == "Invalid volume name, must be two parts"
errPolicyDot == "Invalid policy name, cannot contain '.'"
errVolumeSlash == "Invalid volume name, cannot contain '/'"

\* an internalName that joins the two parts with the '/' it split them at
internalNameSlashed(s) ==
  LET strs == SplitN2(s) IN
  IF Len(strs) # 2
    THEN [name |-> << >>, err |-> errTwoParts]
    ELSE [name |-> strs[1] \o << "/" >> \o strs[2], err |-> Nil]

internalName(s) ==
  LET strs == SplitN2(s) IN
  IF Len(strs) # 2
    THEN [name |-> << >>, err |-> errTwoParts]
    ELSE IF Contains(strs[1], ".")
           THEN [name |-> << >>, err |-> errPolicyDot]
           ELSE IF Contains(strs[2], "/")
                  THEN [name |-> << >>, err |-> errVolumeSlash]
                  ELSE [name |-> strs[1] \o << "." >> \o strs[2], err |-> Nil]

\* the driver's mount root (Driver.mountpath)
mountpath == "/mnt/ebs"

errJail == "Calculated volume path would escape subdir jail"

\* filepath.Join(c.mountpath, intName), refused when the relative path has
\* ".."; intName holds no '/', and Join cleans a lone "." away
mkMountPath(intName) ==
  IF ContainsDotDot(intName)
    THEN [path |-> << >>, err |-> errJail]
    ELSE IF intName = << "." >>
      THEN [path |-> << mountpath >>, err |-> Nil]
      ELSE [path |-> << mountpath, "/" >> \o intName, err |-> Nil]

\* Driver.MountPath
MountPath(name) ==
  IF internalName(name).err # Nil
    THEN [path |-> << >>, err |-> internalName(name).err]
    ELSE mkMountPath(internalName(name).name)

\* ------------------------------------------------------------- errors
errTimeout == "operation timed out"
errRemote == "RequestError"
errNotFound == "InvalidVolume.NotFound"
errIncorrectState == "IncorrectState"
errVolumeInUse == "VolumeInUse"
errDeviceInUse == "InvalidParameterValue: device already in use"
errMetadata == "failed to retrieve the instance id"
errExpectedOne(n) == "expected one response, got " \o ToString(n)
errMkfs == "Error creating filesystem"
errUmount == "Failed to umount after 3 retries"
errUnmountRetry == "Failed to unmount (retrying)"
errMkdir == "error creating directory"
errStat == "Failed to stat EBS device"
errMount == "Failed to mount EBS dev"
errNoDeviceForVolume == "failed to find block device for attached volume"
Wrap(prefix, err) == prefix \o ": " \o err

\* ----------------------------------------------------------- the state
VolIds == 1..MaxVols
Procs == {1, 2}

\* the volume names callers use
NameV == << "t", "/", "v" >>
NameW == << "t", "/", "w" >>
Names == {NameV, NameW}
NoTag == << >>

VARIABLES
  volState,   \* remote: each volume's lifecycle state
  volTag,     \* remote: each volume's identity tag value, or NoTag
  att,        \* remote: each volume's attachment to this instance
  devNodes,   \* OS: the device paths that exist
  mountDirs,  \* OS: the mount directories that exist
  mounts,     \* OS: the mount directories with a filesystem mounted on them
  faults,     \* whether remote and OS calls may fail in this run
  proc,       \* each caller's position and locals
  clean,      \* the run is the scenario so far, no call failed, no timeout
  life,       \* the scenario's operations that have returned nil, or -1
  created,    \* per name: Create returned nil and no Destroy began since
  destroyed,  \* per name: Create then Destroy returned nil, no Create since
  call        \* a direct call of one helper function: its input and result

vars == << volState, volTag, att, devNodes, mountDirs, mounts,
           faults, proc, clean, life, created, destroyed, call >>

envVars == << volState, volTag, att, devNodes, mountDirs, mounts >>
monVars == << clean, life, created, destroyed >>

NoAtt == [state |-> "none", dev |-> NoDev]

\* the root device of the instance, always mapped
RootDeviceName == "/dev/xvda"

RECURSIVE MappingsFrom(_)
MappingsFrom(v) ==
  IF v > MaxVols THEN << >>
  ELSE (IF att[v].state # "none"
          THEN << [DeviceName |-> att[v].dev, VolumeId |-> v] >>
          ELSE << >>) \o MappingsFrom(v + 1)

\* instance.BlockDeviceMappings as DescribeInstances reports it now
BlockDeviceMappings ==
  << [DeviceName |-> RootDeviceName, VolumeId |-> NoVol] >> \o MappingsFrom(1)

\* the volumes DescribeTags matches on the identity key and this value
TaggedWith(name) == {v \in VolIds : volTag[v] = name}
Tagged == {v \in VolIds : volTag[v] # NoTag}

\* getVolumesWithFilters: one page of at most MaxResults of the matches; the
\* page holds `ours` (volumes of this model) and some foreign descriptions
TagPages(matches, nForeign) ==
  LET total == Cardinality(matches) + nForeign
      size == IF total < MaxResults THEN total ELSE MaxResults
  IN  {pg \in [ours : SUBSET matches, others : 0..nForeign] :
         Cardinality(pg.ours) + pg.others = size}

\* the id of a volume the callers of this model did not create
ForeignVol == MaxVols + 1

\* a resolver that takes the first description of a page that is not empty
getVolumeWithTagFirst(pg) ==
  LET n == Cardinality(pg.ours) + pg.others IN
  IF n = 0 THEN [vol |-> NoVol, err |-> errExpectedOne(n)]
           ELSE [vol |-> IF pg.ours # {} THEN CHOOSE v \in pg.ours : TRUE
                                         ELSE ForeignVol,
                 err |-> Nil]

\* getVolumeWithTag on a page of the value-filtered query
getVolumeWithTag(pg) ==
  LET n == Cardinality(pg.ours) + pg.others IN
  IF n # 1 THEN [vol |-> NoVol, err |-> errExpectedOne(n)]
           ELSE [vol |-> IF pg.ours # {} THEN CHOOSE v \in pg.ours : TRUE
                                         ELSE ForeignVol,
                 err |-> Nil]

\* the outcomes the environment may give a remote or OS call
Outcomes == IF faults THEN {"ok", "fail"} ELSE {"ok"}


\* --------------------------------------------------------- the callers
Ops == {"Create", "Format", "Mount", "Unmount", "Destroy", "Exists",
        "Validate"}

\* the synchronizers, when called on their own
SyncOps == {"createVolumeSynchronously", "attachVolumeSynchronously",
            "detachVolumeSynchronously", "deleteVolumeSynchronously"}

\* the scenario of TestMountVolumeMountPath, in order
LifeSeq == << "Create", "Format", "Mount", "Unmount", "Destroy" >>

IdleProc ==
  [pc |-> "idle", op |-> "none", name |-> NoTag, size |-> 0, timeout |-> 0,
   awsVolume |-> NoVol, mappings |-> << >>, device |-> NoDev,
   volumeDir |-> << >>, retries |-> 0, lastErr |-> Nil,
   attachmentState |-> "", elapsed |-> 0, exponent |-> 0,
   mkfsErr |-> Nil, syncErr |-> Nil, err |-> Nil, res |-> FALSE,
   \* what the invocation has done so far
   createReq |-> FALSE, gb |-> 0,
   attachReq |-> NoDev, detachReq |-> NoDev, detachVol |-> NoVol,
   untagged |-> FALSE, deleteReq |-> NoVol,
   unmounts |-> 0, umOk |-> FALSE, umLast |-> "none", rmOk |-> FALSE,
   initOk |-> FALSE, sawTarget |-> FALSE, queryErr |-> FALSE, lastQ |-> "",
   wasCreated |-> FALSE]

\* the first step of each operation
FirstPc(op) ==
  CASE op = "Create" -> "create"
    [] op = "Format" -> "instid"
    [] op = "Mount" -> "instid"
    [] op = "Unmount" -> "instid"
    [] op = "Destroy" -> "resolve"
    [] op = "Exists" -> "list"
    [] op = "Validate" -> "validate"
    [] op = "createVolumeSynchronously" -> "create"
    [] op = "attachVolumeSynchronously" -> "attach"
    [] op = "detachVolumeSynchronously" -> "detach"
    [] op = "deleteVolumeSynchronously" -> "delete"

\* the operation is over: its locals are dead, what it did stays on record
\* (the timing of a wait only for a synchronizer called on its own)
Ended(r, pc, e) ==
  [IdleProc EXCEPT !.pc = pc, !.err = e, !.op = r.op, !.name = r.name,
                   !.res = r.res, !.awsVolume = r.awsVolume,
                   !.size = r.size, !.gb = r.gb, !.createReq = r.createReq,
                   !.mkfsErr = r.mkfsErr, !.syncErr = r.syncErr,
                   !.retries = r.retries, !.unmounts = r.unmounts,
                   !.umOk = r.umOk, !.umLast = r.umLast, !.rmOk = r.rmOk,
                   !.attachReq = r.attachReq, !.detachReq = r.detachReq,
                   !.detachVol = r.detachVol,
                   !.untagged = r.untagged, !.deleteReq = r.deleteReq,
                   !.initOk = r.initOk,
                   !.sawTarget = r.sawTarget, !.queryErr = r.queryErr,
                   !.lastQ = r.lastQ,
                   !.timeout = IF r.op \in SyncOps THEN r.timeout ELSE 0,
                   !.elapsed = IF r.op \in SyncOps THEN r.elapsed ELSE 0]

\* the operation returns e
Finish(r, e) == Ended(r, "done", e)

\* the operation dies of a nil dereference or an index out of range
Panic(r) == Ended(r, "panic", Nil)

\* whether a status response is put on record: for a synchronizer called on
\* its own
Noted(r, b) == r.op \in SyncOps /\ b

\* nothing tagged with the name, nothing attached, no mount directory
Fresh(name) ==
  /\ TaggedWith(name) = {}
  /\ \A v \in VolIds : att[v].state = "none"
  /\ mountDirs = {} /\ mounts = {}

\* a caller invokes a public operation of the driver
Invoke(p, op, name, size, timeout) ==
  /\ proc[p].pc = "idle"
  /\ proc' = [proc EXCEPT ![p] =
       [IdleProc EXCEPT !.pc = FirstPc(op), !.op = op, !.name = name,
                        !.size = size, !.timeout = timeout,
                        !.wasCreated = created[name]]]
  /\ created' = IF op = "Destroy" THEN [created EXCEPT ![name] = FALSE]
                                  ELSE created
  /\ destroyed' = IF op = "Create" THEN [destroyed EXCEPT ![name] = FALSE]
                                   ELSE destroyed
  /\ life' = IF op \in {"Exists", "Validate"} THEN life
             ELSE IF /\ life \in 0..(Len(LifeSeq) - 1)
                     /\ op = LifeSeq[life + 1]
                     /\ (life = 0 => Fresh(name) /\ getVolumeSizeInGB(size).err = Nil)
                    THEN life
                    ELSE -1
  /\ clean' = (clean /\ life' >= 0)
  /\ UNCHANGED << envVars, faults, call >>

\* the same, the service creating no more than MaxCreates volumes
StartOp(p, op, name, size, timeout) ==
  /\ op = "Create" =>
       Cardinality({v \in VolIds : volState[v] # "absent"}) < MaxCreates
  /\ Invoke(p, op, name, size, timeout)

\* the caller takes the result
Return(p) ==
  /\ proc[p].pc = "done"
  /\ proc' = [proc EXCEPT ![p] = IdleProc]
  /\ created' = IF proc[p].op = "Create" /\ proc[p].err = Nil
                  THEN [created EXCEPT ![proc[p].name] = TRUE]
                  ELSE created
  /\ destroyed' = IF /\ proc[p].op = "Destroy" /\ proc[p].err = Nil
                     /\ proc[p].wasCreated
                    THEN [destroyed EXCEPT ![proc[p].name] = TRUE]
                    ELSE destroyed
  /\ life' = IF proc[p].op \in {"Exists", "Validate"} \/ life < 0 THEN life
             ELSE IF proc[p].err = Nil THEN life + 1 ELSE -1
  /\ clean' = (clean /\ life' >= 0)
  /\ UNCHANGED << envVars, faults, call >>

\* ------------------------------------------------ the two racing timers
\* select at elapsed e, poll interval iv, timeout t: which branch can fire
SelectTimeout(e, iv, t) == e + iv >= t
SelectPoll(e, iv, t) == e + iv <= t

\* the poll interval of the wait the caller is in
Interval(r) ==
  CASE r.pc = "create_poll" -> CreatePollBase * r.exponent
    [] r.pc = "attach_poll" -> AttachPoll
    [] r.pc = "detach_poll" -> DetachPoll
    [] r.pc = "delete_poll" -> DeletePoll

\* what the status query of the caller's latest step answered, the error or
\* the state ("" when the step made no query): put on record for a
\* synchronizer called on its own
Answered(r, vol, state) ==
  IF r.op \notin SyncOps THEN ""
  ELSE IF vol.err # Nil THEN vol.err ELSE state

\* getVolumeInfo: DescribeVolumes on one id, as the environment answers it
getVolumeInfo(v, o) ==
  IF o = "fail" THEN [err |-> errRemote, State |-> "", Attachments |-> << >>]
  ELSE IF volState[v] \in {"absent", "gone"}
    THEN [err |-> errNotFound, State |-> "", Attachments |-> << >>]
    ELSE [err |-> Nil, State |-> volState[v],
          Attachments |-> IF att[v].state = "none" THEN << >>
                          ELSE << [State |-> att[v].state] >>]

\* ------------------------------------------- where each wait returns to
AfterCreate(r, e) ==
  IF r.op = "Create" /\ e = Nil
    THEN [r EXCEPT !.pc = "tag", !.elapsed = 0, !.exponent = 0]
                                ELSE Finish(r, e)

\* a Mount that detaches again when its attach fails
AfterAttachRollback(r, e) ==
  IF r.op \in {"Format", "Mount"}
    THEN IF e # Nil
           THEN IF r.op = "Mount" THEN [r EXCEPT !.pc = "detach"]
                ELSE Finish(r, Wrap("failed to attach volume to instance", e))
           ELSE [r EXCEPT !.pc = IF r.op = "Format" THEN "mkfs" ELSE "mkdir",
                          !.elapsed = 0, !.attachmentState = ""]
    ELSE Finish(r, e)

AfterAttach(r, e) ==
  IF r.op \in {"Format", "Mount"}
    THEN IF e # Nil
           THEN Finish(r, Wrap("failed to attach volume to instance", e))
           ELSE [r EXCEPT !.pc = IF r.op = "Format" THEN "mkfs" ELSE "mkdir",
                          !.elapsed = 0, !.attachmentState = ""]
    ELSE Finish(r, e)

\* a Format that returns the error of its detach
AfterDetachReturned(r, e) ==
  LET q == [r EXCEPT !.syncErr = e] IN
  IF r.op = "Unmount" /\ e # Nil
    THEN Finish(q, Wrap("failed to detach volume from instance", e))
    ELSE Finish(q, e)

\* Format only logs a detach error; Unmount returns it
AfterDetach(r, e) ==
  LET q == [r EXCEPT !.syncErr = e] IN
  IF r.op = "Format" THEN Finish(q, r.mkfsErr)
  ELSE IF r.op = "Unmount" /\ e # Nil
    THEN Finish(q, Wrap("failed to detach volume from instance", e))
    ELSE Finish(q, e)

AfterDelete(r, e) ==
  IF r.op = "Destroy" /\ e # Nil
    THEN Finish(r, Wrap("failed to destroy the AWS EBS volume", e))
    ELSE Finish(r, e)

\* the timeout timer wins the select of whichever wait the caller is in
SyncTimeout(p) ==
  LET r == proc[p]
      q == [r EXCEPT !.elapsed = r.timeout, !.lastQ = ""] IN
  /\ r.pc \in {"create_poll", "attach_poll", "detach_poll", "delete_poll"}
  /\ SelectTimeout(r.elapsed, Interval(r), r.timeout)
  /\ proc' = [proc EXCEPT ![p] =
       CASE r.pc = "create_poll" -> AfterCreate(q, errTimeout)
         [] r.pc = "attach_poll" -> AfterAttach(q, errTimeout)
         [] r.pc = "detach_poll" -> AfterDetach(q, errTimeout)
         [] r.pc = "delete_poll" -> AfterDelete(q, errTimeout)]
  /\ clean' = FALSE
  /\ UNCHANGED << envVars, faults, life, created, destroyed, call >>


\* what every step of a caller leaves alone besides the environment
Keep == UNCHANGED << faults, life, created, destroyed, call >>

\* the lowest volume id the service has not handed out yet
FreshVol == CHOOSE v \in VolIds :
              volState[v] = "absent" /\ \A w \in 1..(v - 1) : volState[w] # "absent"

\* ------------------------------------------------------------- Create
\* Create up to the create-volume response; createVolumeSynchronously's head
CreateCall(p) ==
  LET sz == getVolumeSizeInGB(proc[p].size)
      r == [proc[p] EXCEPT !.createReq = TRUE, !.gb = sz.gb] IN
  /\ r.pc = "create"
  /\ IF r.op = "Create" /\ sz.err # Nil
       THEN /\ proc' = [proc EXCEPT ![p] = Finish(proc[p], sz.err)]
            /\ UNCHANGED << volState, clean >>
       ELSE \E o \in Outcomes :
              IF o = "fail" \/ \A v \in VolIds : volState[v] # "absent"
                THEN /\ proc' = [proc EXCEPT ![p] = AfterCreate(r, errRemote)]
                     /\ clean' = FALSE
                     /\ UNCHANGED volState
                ELSE \E st \in {"creating", "available"} :
                       /\ volState' = [volState EXCEPT ![FreshVol] = st]
                       /\ proc' = [proc EXCEPT ![p] =
                            IF st = "available"
                              THEN AfterCreate([r EXCEPT !.awsVolume = FreshVol,
                                                         !.initOk = Noted(r, TRUE),
                                                         !.sawTarget = Noted(r, TRUE)], Nil)
                              ELSE [r EXCEPT !.awsVolume = FreshVol,
                                             !.initOk = Noted(r, TRUE),
                                             !.pc = "create_poll",
                                             !.elapsed = 0, !.exponent = 1]]
                       /\ UNCHANGED clean
  /\ UNCHANGED << volTag, att, devNodes, mountDirs, mounts >>
  /\ Keep

\* one poll tick of createVolumeSynchronously
CreateTick(p) ==
  LET r == proc[p] IN
  /\ r.pc = "create_poll"
  /\ SelectPoll(r.elapsed, Interval(r), r.timeout)
  /\ \E o \in Outcomes :
       LET vol == getVolumeInfo(r.awsVolume, o)
           q == [r EXCEPT !.elapsed = r.elapsed + Interval(r),
                          !.lastQ = Answered(r, vol, vol.State),
                          !.queryErr = Noted(r, r.queryErr \/ vol.err # Nil)] IN
       /\ proc' = [proc EXCEPT ![p] =
            IF vol.err = Nil /\ vol.State = "available"
              THEN AfterCreate([q EXCEPT !.sawTarget = Noted(r, TRUE)], Nil)
              ELSE [q EXCEPT !.exponent = r.exponent + 1]]
       /\ clean' = (clean /\ o = "ok")
  /\ UNCHANGED envVars
  /\ UNCHANGED << faults, life, created, destroyed, call >>

\* setVolumeNameTag on the created volume
Tag(p) ==
  LET r == proc[p] IN
  /\ r.pc = "tag"
  /\ \E o \in Outcomes :
       /\ IF o = "fail"
            THEN /\ proc' = [proc EXCEPT ![p] = Finish(r,
                      Wrap("encountered error while storing volume name in tag",
                           errRemote))]
                 /\ UNCHANGED volTag
            ELSE /\ proc' = [proc EXCEPT ![p] = Finish(r, Nil)]
                 /\ volTag' = [volTag EXCEPT ![r.awsVolume] = r.name]
       /\ clean' = (clean /\ o = "ok")
  /\ UNCHANGED << volState, att, devNodes, mountDirs, mounts >>
  /\ Keep

\* ------------------------------------------------------------ Validate
errOptions == "invalid driver options"
errRegion == "AWS region is missing in ebs storage driver."

\* the region parameter a caller passes
Regions == {"", "eu-central-1"}

\* Validate: the generic check of the options (do.Validate, whose outcome is
\* optsOk), the size, the region parameter
Validate(p) ==
  LET r == proc[p]
      sz == getVolumeSizeInGB(r.size) IN
  /\ r.pc = "validate"
  /\ \E optsOk \in BOOLEAN, region \in Regions :
       proc' = [proc EXCEPT ![p] =
         IF ~optsOk THEN Finish(r, errOptions)
         ELSE IF sz.err # Nil THEN Finish(r, sz.err)
         ELSE IF region = "" THEN Finish([r EXCEPT !.gb = sz.gb], errRegion)
         ELSE Finish([r EXCEPT !.gb = sz.gb], Nil)]
  /\ UNCHANGED envVars
  /\ UNCHANGED << faults, clean, life, created, destroyed, call >>

\* ------------------------------------------------------ Exists and List
\* Exists' loop over the listed volumes
ExistsIn(pg, name) == \E v \in pg.ours : volTag[v] = name

\* Exists: List (listVolumes, one page of the key-filtered query, which also
\* matches the tagged volumes other hosts hold at that moment), then the
\* search for the name
Exists(p) ==
  LET r == proc[p] IN
  /\ r.pc = "list"
  /\ \E o \in Outcomes :
       /\ IF o = "fail"
            THEN proc' = [proc EXCEPT ![p] = Finish([r EXCEPT !.res = FALSE],
                                                    errRemote)]
            ELSE \E nForeign \in 0..MaxForeign :
                 \E pg \in TagPages(Tagged, nForeign) :
                   proc' = [proc EXCEPT ![p] =
                     Finish([r EXCEPT !.res = ExistsIn(pg, r.name)], Nil)]
       /\ clean' = (clean /\ o = "ok")
  /\ UNCHANGED envVars
  /\ UNCHANGED << faults, life, created, destroyed, call >>

\* --------------------------------- the head of Format, Mount and Unmount
\* getInstanceID; Unmount goes on to compute its mount directory
InstID(p) ==
  LET r == proc[p]
      mp == MountPath(r.name) IN
  /\ r.pc = "instid"
  /\ \E o \in Outcomes :
       /\ proc' = [proc EXCEPT ![p] =
            IF o = "fail" THEN Finish(r, errMetadata)
            ELSE IF r.op # "Unmount" THEN [r EXCEPT !.pc = "resolve"]
            ELSE IF mp.err # Nil THEN Finish(r, mp.err)
            ELSE [r EXCEPT !.pc = "resolve", !.volumeDir = mp.path]]
       /\ clean' = (clean /\ o = "ok")
  /\ UNCHANGED envVars
  /\ UNCHANGED << faults, life, created, destroyed, call >>

\* getVolumeWithName: the value-filtered tag query, exactly one match wanted
Resolve(p) ==
  LET r == proc[p] IN
  /\ r.pc = "resolve"
  /\ \E o \in Outcomes :
       /\ \E pg \in TagPages(TaggedWith(r.name), 0) :
            LET got == IF o = "fail" THEN [vol |-> NoVol, err |-> errRemote]
                                     ELSE getVolumeWithTag(pg) IN
            proc' = [proc EXCEPT ![p] =
              IF got.err # Nil
                THEN Finish(r, IF r.op = "Destroy"
                     THEN Wrap("failed to retrieve the AWS EBS volume name", got.err)
                     ELSE got.err)
                ELSE [r EXCEPT !.awsVolume = got.vol,
                               !.pc = IF r.op = "Destroy" THEN "untag"
                                                          ELSE "instinfo"]]
       /\ clean' = (clean /\ o = "ok")
  /\ UNCHANGED envVars
  /\ UNCHANGED << faults, life, created, destroyed, call >>

\* getInstanceInfo: the instance's block-device mappings as of now
InstInfo(p) ==
  LET r == proc[p] IN
  /\ r.pc = "instinfo"
  /\ \E o \in Outcomes :
       /\ proc' = [proc EXCEPT ![p] =
            IF o = "fail"
              THEN Finish(r, Wrap("failed to get information about the instance",
                                  errRemote))
              ELSE [r EXCEPT !.mappings = BlockDeviceMappings,
                             !.pc = IF r.op = "Unmount" THEN "findvoldev"
                                                        ELSE "finddev"]]
       /\ clean' = (clean /\ o = "ok")
  /\ UNCHANGED envVars
  /\ UNCHANGED << faults, life, created, destroyed, call >>

\* Format and Mount pick a free device from the mappings they fetched
FindDev(p) ==
  LET r == proc[p]
      d == findFreeBlockDevice(r.mappings) IN
  /\ r.pc = "finddev"
  /\ proc' = [proc EXCEPT ![p] =
       IF d.err # Nil THEN Finish(r, d.err)
                      ELSE [r EXCEPT !.device = d.dev, !.pc = "attach",
                                     !.mappings = << >>]]
  /\ UNCHANGED envVars
  /\ UNCHANGED << faults, clean, life, created, destroyed, call >>

\* Unmount looks its volume's device up in the mappings it fetched
FindVolDev(p) ==
  LET r == proc[p]
      d == findBlockVolumeBlockDevice(r.mappings, r.awsVolume) IN
  /\ r.pc = "findvoldev"
  /\ proc' = [proc EXCEPT ![p] =
       IF d.err # Nil THEN Finish(r, errNoDeviceForVolume)
                      ELSE [r EXCEPT !.device = d.dev, !.pc = "retry",
                                     !.mappings = << >>]]
  /\ UNCHANGED envVars
  /\ UNCHANGED << faults, clean, life, created, destroyed, call >>


\* ---------------------------------------------- attachVolumeSynchronously
\* the service's answer to AttachVolume(v, device) in the current state
AttachRefusal(v, device) ==
  IF volState[v] \in {"absent", "gone"} THEN errNotFound
  ELSE IF volState[v] # "available" THEN errVolumeInUse
  ELSE IF \/ device = RootDeviceName
          \/ \E w \in VolIds : att[w].state # "none" /\ att[w].dev = device
    THEN errDeviceInUse
    ELSE Nil

\* attachVolume and the check of its response
Attach(p) ==
  LET r == [proc[p] EXCEPT !.attachReq = proc[p].device]
      no == AttachRefusal(r.awsVolume, r.device) IN
  /\ proc[p].pc = "attach"
  /\ \E o \in Outcomes :
       /\ IF o = "fail" \/ no # Nil
            THEN /\ proc' = [proc EXCEPT ![p] =
                      AfterAttach(r, IF o = "fail" THEN errRemote ELSE no)]
                 /\ UNCHANGED << volState, att >>
            ELSE \E st \in {"attaching", "attached"} :
                   /\ att' = [att EXCEPT ![r.awsVolume] =
                                [state |-> st, dev |-> r.device]]
                   /\ volState' = [volState EXCEPT ![r.awsVolume] = "in-use"]
                   /\ proc' = [proc EXCEPT ![p] =
                        IF st = "attached"
                          THEN AfterAttach([r EXCEPT !.initOk = Noted(r, TRUE),
                                                     !.sawTarget = Noted(r, TRUE)], Nil)
                          ELSE [r EXCEPT !.initOk = Noted(r, TRUE),
                                         !.pc = "attach_poll", !.elapsed = 0]]
       /\ clean' = (clean /\ o = "ok")
  /\ UNCHANGED << volTag, devNodes, mountDirs, mounts >>
  /\ Keep

\* os.Stat(device) as the OS answers it
StatOutcomes(device) ==
  (IF device \in devNodes THEN {"ok"} ELSE {"ENOENT"})
    \cup (IF faults THEN {"EACCES"} ELSE {})

\* one poll tick of attachVolumeSynchronously; a failed status query leaves
\* vol nil and the tick dereferences it
AttachTick(p) ==
  LET r == proc[p]
      q == [r EXCEPT !.elapsed = r.elapsed + Interval(r)] IN
  /\ r.pc = "attach_poll"
  /\ SelectPoll(r.elapsed, Interval(r), r.timeout)
  /\ \E s \in StatOutcomes(r.device), o \in Outcomes :
       LET vol == getVolumeInfo(r.awsVolume, o)
           attachmentState == IF Len(vol.Attachments) = 1
                                THEN vol.Attachments[1].State
                                ELSE r.attachmentState
           a == [q EXCEPT !.lastQ = Answered(r, vol, attachmentState)] IN
       /\ proc' = [proc EXCEPT ![p] =
            IF s = "ENOENT" THEN [q EXCEPT !.lastQ = ""]
            ELSE IF vol.err # Nil
              THEN Panic([a EXCEPT !.queryErr = Noted(r, TRUE)])
            ELSE IF attachmentState = "attached"
              THEN IF Len(vol.Attachments) = 0
                     THEN Panic(a)
                     ELSE AfterAttach([a EXCEPT !.sawTarget = Noted(r, TRUE),
                                       !.attachmentState = attachmentState], Nil)
              ELSE [a EXCEPT !.attachmentState = attachmentState]]
       /\ clean' = (clean /\ (s = "ENOENT" \/ o = "ok") /\ s # "EACCES")
  /\ UNCHANGED envVars
  /\ UNCHANGED << faults, life, created, destroyed, call >>

\* --------------------------------------------------------------- Format
\* the runs of the format command: how long it takes, its exit status, and
\* what the executor reports of a command it stopped or that failed; the
\* command does nothing but exit 0 in time when there are no faults
Runs(faulty, timeout) ==
  { run \in [duration : 0..MaxRun, status : {0, 1},
             killed : {0, 1}, exitErr : BOOLEAN] :
      faulty \/ (run.duration < timeout /\ run.status = 0) }

\* runWithTimeout: the command runs under a context that ends at the timeout
runWithTimeout(run, timeout) ==
  IF run.duration >= timeout
    THEN [er |-> [ExitStatus |-> run.killed], err |-> "context deadline exceeded"]
    ELSE [er |-> [ExitStatus |-> run.status],
          err |-> IF run.status # 0 /\ run.exitErr THEN "exit status" ELSE Nil]

\* a mkfsVolume that looks at the exit status only
mkfsVolumeExitOnly(run, timeout) ==
  IF runWithTimeout(run, timeout).er.ExitStatus # 0 THEN errMkfs ELSE Nil

\* mkfsVolume, the command being templateFSCmd(fscmd, devicePath)
mkfsVolume(run, timeout) ==
  LET res == runWithTimeout(run, timeout) IN
  IF res.err # Nil \/ res.er.ExitStatus # 0 THEN errMkfs ELSE Nil

\* Format's call of mkfsVolume
Mkfs(p) ==
  LET r == proc[p] IN
  /\ r.pc = "mkfs"
  /\ \E run \in Runs(faults, r.timeout) :
       LET bad == mkfsVolume(run, r.timeout) # Nil \/ r.device \notin devNodes IN
       /\ proc' = [proc EXCEPT ![p] =
            [r EXCEPT !.pc = "detach",
                      !.mkfsErr = IF bad THEN errMkfs ELSE Nil]]
       /\ clean' = (clean /\ ~bad)
  /\ UNCHANGED envVars
  /\ UNCHANGED << faults, life, created, destroyed, call >>

\* ---------------------------------------------- detachVolumeSynchronously
\* the service's answer to DetachVolume(v, device) in the current state
DetachRefusal(v, device) ==
  IF volState[v] \in {"absent", "gone"} THEN errNotFound
  ELSE IF att[v].state = "none" \/ att[v].dev # device THEN errIncorrectState
  ELSE Nil

\* detachVolume and the check of its response
DetachCall(p) ==
  LET r == [proc[p] EXCEPT !.detachReq = proc[p].device,
                           !.detachVol = proc[p].awsVolume]
      no == DetachRefusal(r.awsVolume, r.device) IN
  /\ proc[p].pc = "detach"
  /\ \E o \in Outcomes :
       /\ IF o = "fail" \/ no # Nil
            THEN /\ proc' = [proc EXCEPT ![p] =
                      AfterDetach(r, IF o = "fail" THEN errRemote ELSE no)]
                 /\ UNCHANGED << volState, att >>
                 /\ clean' = (clean /\ o = "ok")
            ELSE \E st \in {"detaching", "detached"} :
                   IF st = "detached"
                     THEN /\ att' = [att EXCEPT ![r.awsVolume] = NoAtt]
                          /\ volState' = [volState EXCEPT ![r.awsVolume] = "available"]
                          /\ \E o2 \in Outcomes :
                               /\ proc' = [proc EXCEPT ![p] =
                                    AfterDetach([r EXCEPT !.initOk = Noted(r, TRUE),
                                                          !.sawTarget = Noted(r, TRUE)],
                                                IF o2 = "fail" THEN errRemote ELSE Nil)]
                               /\ clean' = (clean /\ o2 = "ok")
                     ELSE /\ att' = [att EXCEPT ![r.awsVolume].state = "detaching"]
                          /\ UNCHANGED << volState, clean >>
                          /\ proc' = [proc EXCEPT ![p] =
                               [r EXCEPT !.initOk = Noted(r, TRUE),
                                         !.pc = "detach_poll", !.elapsed = 0]]
  /\ UNCHANGED << volTag, devNodes, mountDirs, mounts >>
  /\ Keep

\* one poll tick of detachVolumeSynchronously
DetachTick(p) ==
  LET r == proc[p]
      q == [r EXCEPT !.elapsed = r.elapsed + Interval(r)] IN
  /\ r.pc = "detach_poll"
  /\ SelectPoll(r.elapsed, Interval(r), r.timeout)
  /\ \E s \in StatOutcomes(r.device), o \in Outcomes :
       LET vol == getVolumeInfo(r.awsVolume, o)
           a == [q EXCEPT !.lastQ = Answered(r, vol, vol.State)] IN
       /\ proc' = [proc EXCEPT ![p] =
            IF s = "ok" THEN [q EXCEPT !.lastQ = ""]
            ELSE IF vol.err = Nil /\ vol.State = "available"
              THEN AfterDetach([a EXCEPT !.sawTarget = Noted(r, TRUE)], Nil)
              ELSE [a EXCEPT !.queryErr = Noted(r, r.queryErr \/ vol.err # Nil)]]
       /\ clean' = (clean /\ (s = "ok" \/ o = "ok") /\ s # "EACCES")
  /\ UNCHANGED envVars
  /\ UNCHANGED << faults, life, created, destroyed, call >>


\* ---------------------------------------------------------------- Mount
\* internalName, mkMountPath and the two MkdirAll calls
Mkdir(p) ==
  LET r == proc[p]
      mp == MountPath(r.name) IN
  /\ r.pc = "mkdir"
  /\ \E o \in Outcomes :
       /\ IF mp.err # Nil \/ o = "fail"
            THEN /\ proc' = [proc EXCEPT ![p] =
                      Finish(r, IF mp.err # Nil THEN mp.err ELSE errMkdir)]
                 /\ UNCHANGED mountDirs
            ELSE /\ proc' = [proc EXCEPT ![p] =
                      [r EXCEPT !.volumeDir = mp.path, !.pc = "osmount"]]
                 /\ mountDirs' = mountDirs \cup {mp.path}
       /\ clean' = (clean /\ o = "ok")
  /\ UNCHANGED << volState, volTag, att, devNodes, mounts >>
  /\ Keep

\* os.Stat(device), then unix.Mount(device, volumePath, fstype)
OsMount(p) ==
  LET r == proc[p] IN
  /\ r.pc = "osmount"
  /\ \E o \in Outcomes :
       /\ IF r.device \notin devNodes
            THEN /\ proc' = [proc EXCEPT ![p] = Finish(r, errStat)]
                 /\ UNCHANGED mounts
            ELSE IF o = "fail"
              THEN /\ proc' = [proc EXCEPT ![p] = Finish(r, errMount)]
                   /\ UNCHANGED mounts
              ELSE /\ proc' = [proc EXCEPT ![p] = Finish(r, Nil)]
                   /\ mounts' = mounts \cup {r.volumeDir}
       /\ clean' = (clean /\ o = "ok" /\ r.device \in devNodes)
  /\ UNCHANGED << volState, volTag, att, devNodes, mountDirs >>
  /\ Keep

\* -------------------------------------------------------------- Unmount
\* unix.Unmount(volumeDir, 0) as the OS answers it
UnmountOutcomes(dir) ==
  IF dir \in mounts THEN {"ok"} \cup (IF faults THEN {"EBUSY"} ELSE {})
  ELSE IF dir \in mountDirs THEN {"EINVAL"}
  ELSE {"ENOENT"}

\* err != nil && err != unix.ENOENT && err != unix.EINVAL
UnmountFailed(e) == e # "ok" /\ e # "ENOENT" /\ e # "EINVAL"

\* the retry label while retries < 3: one unmount attempt
UnmountAttempt(p) ==
  LET r == proc[p] IN
  /\ r.pc = "retry"
  /\ r.retries < MaxRetries
  /\ r.unmounts < MaxUnmountCalls
  /\ \E e \in UnmountOutcomes(r.volumeDir) :
       /\ proc' = [proc EXCEPT ![p] =
            IF UnmountFailed(e)
              THEN [r EXCEPT !.lastErr = errUnmountRetry,
                             !.retries = r.retries + 1,
                             !.unmounts = r.unmounts + 1, !.umOk = FALSE,
                             !.umLast = e]
              ELSE [r EXCEPT !.pc = "rmdir", !.unmounts = r.unmounts + 1,
                             !.umOk = TRUE, !.umLast = e]]
       /\ mounts' = IF e = "ok" THEN mounts \ {r.volumeDir} ELSE mounts
       /\ clean' = (clean /\ e = "ok")
  /\ UNCHANGED << volState, volTag, att, devNodes, mountDirs >>
  /\ Keep

\* the retry label once retries has reached 3
UnmountGiveUp(p) ==
  LET r == proc[p] IN
  /\ r.pc = "retry"
  /\ ~(r.retries < MaxRetries)
  /\ proc' = [proc EXCEPT ![p] = Finish(r, Wrap(errUmount, r.lastErr))]
  /\ UNCHANGED envVars
  /\ UNCHANGED << faults, clean, life, created, destroyed, call >>

\* os.Remove(volumeDir) as the OS answers it
RemoveOutcomes(dir) ==
  IF dir \notin mountDirs THEN {"ENOENT"}
  ELSE IF dir \in mounts THEN {"EBUSY"}
  ELSE {"ok"} \cup (IF faults THEN {"ENOTEMPTY"} ELSE {})

\* a removal whose failure is not looked at
RemoveFailedIgnored(e) == FALSE

\* err != nil && !os.IsNotExist(err)
RemoveFailed(e) == e # "ok" /\ e # "ENOENT"

\* the removal of the mount directory; a failure jumps back to retry
RemoveDir(p) ==
  LET r == proc[p] IN
  /\ r.pc = "rmdir"
  /\ \E e \in RemoveOutcomes(r.volumeDir) :
       /\ proc' = [proc EXCEPT ![p] =
            IF RemoveFailed(e)
              THEN [r EXCEPT !.pc = "retry", !.rmOk = FALSE]
              ELSE [r EXCEPT !.pc = "detach", !.rmOk = TRUE]]
       /\ mountDirs' = IF e = "ok" THEN mountDirs \ {r.volumeDir} ELSE mountDirs
       /\ clean' = (clean /\ e = "ok")
  /\ UNCHANGED << volState, volTag, att, devNodes, mounts >>
  /\ Keep

\* -------------------------------------------------------------- Destroy
\* a Destroy that does not look at the error of the tag removal
UntagFailedIgnored(o) == FALSE

\* err != nil after deleteVolumeNameTag
UntagFailed(o) == o = "fail"

\* deleteVolumeNameTag
Untag(p) ==
  LET r == proc[p] IN
  /\ r.pc = "untag"
  /\ \E o \in Outcomes :
       /\ proc' = [proc EXCEPT ![p] =
            IF UntagFailed(o)
              THEN Finish(r, Wrap("failed to untag the volume", errRemote))
              ELSE [r EXCEPT !.pc = "delete", !.untagged = (o = "ok")]]
       /\ volTag' = IF o = "fail" THEN volTag
                    ELSE [volTag EXCEPT ![r.awsVolume] =
                            IF @ = r.name THEN NoTag ELSE @]
       /\ clean' = (clean /\ o = "ok")
  /\ UNCHANGED << volState, att, devNodes, mountDirs, mounts >>
  /\ Keep

\* the service's answer to DeleteVolume(v) in the current state
DeleteRefusal(v) ==
  IF volState[v] \in {"absent", "gone", "deleted"} THEN errNotFound
  ELSE IF volState[v] # "available" THEN errVolumeInUse
  ELSE Nil

\* deleteVolume, the head of deleteVolumeSynchronously
DeleteCall(p) ==
  LET r == [proc[p] EXCEPT !.deleteReq = proc[p].awsVolume]
      no == DeleteRefusal(r.awsVolume) IN
  /\ proc[p].pc = "delete"
  /\ \E o \in Outcomes :
       /\ IF o = "fail" \/ no # Nil
            THEN /\ proc' = [proc EXCEPT ![p] =
                      AfterDelete(r, IF o = "fail" THEN errRemote ELSE no)]
                 /\ UNCHANGED volState
            ELSE /\ proc' = [proc EXCEPT ![p] =
                      [r EXCEPT !.initOk = Noted(r, TRUE), !.pc = "delete_check"]]
                 /\ volState' = [volState EXCEPT ![r.awsVolume] = "deleting"]
       /\ clean' = (clean /\ o = "ok")
  /\ UNCHANGED << volTag, att, devNodes, mountDirs, mounts >>
  /\ Keep

\* the first status check after the delete call
DeleteCheck(p) ==
  LET r == proc[p] IN
  /\ r.pc = "delete_check"
  /\ \E o \in Outcomes :
       LET vol == getVolumeInfo(r.awsVolume, o)
           q == [r EXCEPT !.queryErr = Noted(r, vol.err # Nil),
                          !.lastQ = Answered(r, vol, vol.State),
                          !.sawTarget = Noted(r, \/ vol.err = errNotFound
                                                 \/ vol.err = Nil /\ vol.State = "deleted")] IN
       /\ proc' = [proc EXCEPT ![p] =
            IF vol.err # Nil THEN AfterDelete(q, vol.err)
            ELSE IF vol.State = "deleted" THEN AfterDelete(q, Nil)
            ELSE [q EXCEPT !.pc = "delete_poll", !.elapsed = 0]]
       /\ clean' = (clean /\ o = "ok")
  /\ UNCHANGED envVars
  /\ UNCHANGED << faults, life, created, destroyed, call >>

\* one poll tick of deleteVolumeSynchronously
DeleteTick(p) ==
  LET r == proc[p] IN
  /\ r.pc = "delete_poll"
  /\ SelectPoll(r.elapsed, Interval(r), r.timeout)
  /\ \E o \in Outcomes :
       LET vol == getVolumeInfo(r.awsVolume, o)
           q == [r EXCEPT !.elapsed = r.elapsed + Interval(r),
                          !.lastQ = Answered(r, vol, vol.State),
                          !.queryErr = Noted(r, r.queryErr \/ vol.err # Nil),
                          !.sawTarget = Noted(r, \/ r.sawTarget
                                                 \/ vol.err = errNotFound
                                                 \/ vol.err = Nil /\ vol.State = "deleted")] IN
       /\ proc' = [proc EXCEPT ![p] =
            IF vol.err = Nil THEN q
            ELSE IF vol.err = errNotFound THEN AfterDelete(q, Nil)
            ELSE q]
       /\ clean' = (clean /\ o = "ok")
  /\ UNCHANGED envVars
  /\ UNCHANGED << faults, life, created, destroyed, call >>


\* ------------------------------------------- the remote service and the OS
\* a volume being created becomes available
EnvVolumeAvailable(v) ==
  /\ volState[v] = "creating"
  /\ volState' = [volState EXCEPT ![v] = "available"]
  /\ UNCHANGED << volTag, att, devNodes, mountDirs, mounts,
                  faults, proc, clean, life, created, destroyed, call >>

\* an attachment in progress completes
EnvAttached(v) ==
  /\ att[v].state = "attaching"
  /\ att' = [att EXCEPT ![v].state = "attached"]
  /\ UNCHANGED << volState, volTag, devNodes, mountDirs, mounts,
                  faults, proc, clean, life, created, destroyed, call >>

\* the kernel exposes the device node of an attachment
EnvDeviceAppears(v) ==
  /\ att[v].state \in {"attaching", "attached"}
  /\ att[v].dev \notin devNodes
  /\ devNodes' = devNodes \cup {att[v].dev}
  /\ UNCHANGED << volState, volTag, att, mountDirs, mounts,
                  faults, proc, clean, life, created, destroyed, call >>

\* a detachment in progress completes
EnvDetached(v) ==
  /\ att[v].state = "detaching"
  /\ att' = [att EXCEPT ![v] = NoAtt]
  /\ volState' = [volState EXCEPT ![v] = "available"]
  /\ UNCHANGED << volTag, devNodes, mountDirs, mounts,
                  faults, proc, clean, life, created, destroyed, call >>

\* the kernel drops the device node of a volume that is detaching or detached
EnvDeviceDisappears(d) ==
  /\ d \in devNodes
  /\ \A v \in VolIds : att[v].state \in {"attaching", "attached"} => att[v].dev # d
  /\ devNodes' = devNodes \ {d}
  /\ UNCHANGED << volState, volTag, att, mountDirs, mounts,
                  faults, proc, clean, life, created, destroyed, call >>

\* a deletion proceeds: the record shows deleted for a while, or vanishes
EnvDeleteProgress(v) ==
  /\ volState[v] \in {"deleting", "deleted"}
  /\ \E st \in {"deleted", "gone"} :
       /\ st # volState[v]
       /\ volState' = [volState EXCEPT ![v] = st]
  /\ UNCHANGED << volTag, att, devNodes, mountDirs, mounts,
                  faults, proc, clean, life, created, destroyed, call >>

Env ==
  \/ \E v \in VolIds : EnvVolumeAvailable(v)
  \/ \E v \in VolIds : EnvAttached(v)
  \/ \E v \in VolIds : EnvDeviceAppears(v)
  \/ \E v \in VolIds : EnvDetached(v)
  \/ \E d \in devNodes : EnvDeviceDisappears(d)
  \/ \E v \in VolIds : EnvDeleteProgress(v)

\* every step of caller p inside an operation
Step(p) ==
  \/ CreateCall(p) \/ CreateTick(p) \/ Tag(p) \/ Exists(p) \/ Validate(p)
  \/ InstID(p) \/ Resolve(p) \/ InstInfo(p) \/ FindDev(p) \/ FindVolDev(p)
  \/ Attach(p) \/ AttachTick(p) \/ Mkfs(p) \/ DetachCall(p) \/ DetachTick(p)
  \/ Mkdir(p) \/ OsMount(p)
  \/ UnmountAttempt(p) \/ UnmountGiveUp(p) \/ RemoveDir(p)
  \/ Untag(p) \/ DeleteCall(p) \/ DeleteCheck(p) \/ DeleteTick(p)
  \/ SyncTimeout(p)

\* ---------------------------------- one caller, the whole driver, faults
\* the byte sizes a caller asks for
Sizes == {0, gigabyteAsBytes - 1, gigabyteAsBytes, gigabyteAsBytes + 1}

\* the do.Timeout a caller passes to each operation
OpTimeout(op) == IF op \in {"Create", "Destroy"} THEN MaxTimeout ELSE ShortTimeout

NoCall == [fn |-> "none"]

InitEnv ==
  /\ volState = [v \in VolIds |-> "absent"]
  /\ volTag = [v \in VolIds |-> NoTag]
  /\ att = [v \in VolIds |-> NoAtt]
  /\ devNodes = {}
  /\ mountDirs = {}
  /\ mounts = {}

InitMon ==
  /\ clean = TRUE
  /\ life = 0
  /\ created = [n \in Names |-> FALSE]
  /\ destroyed = [n \in Names |-> FALSE]

Init ==
  /\ InitEnv
  /\ InitMon
  /\ faults = TRUE
  /\ proc = [p \in Procs |-> IdleProc]
  /\ call = NoCall

Next ==
  \/ \E op \in Ops, size \in Sizes :
       StartOp(1, op, NameV,
               IF op \in {"Create", "Validate"} THEN size ELSE gigabyteAsBytes,
               OpTimeout(op))
  \/ Return(1)
  \/ Step(1)
  \/ Env

Spec == Init /\ [][Next]_vars


\* ------------------------------ findFreeBlockDevice called on its own
\* seq in the opposite order
Reversed(seq) == [i \in 1..Len(seq) |-> seq[Len(seq) + 1 - i]]

\* the mappings of the first k device letters, the letter `hole` left out
LetterRun(k, hole) ==
  LET codes == SelectSeq([i \in 1..k |-> FirstDevLetter + i - 1],
                         LAMBDA c : c # hole) IN
  [i \in 1..Len(codes) |-> [DeviceName |-> BlockDevName(codes[i]),
                            VolumeId |-> codes[i]]]

\* an instance store device, whose name is none of the scanned paths
OtherMapping == [DeviceName |-> "/dev/sda1", VolumeId |-> NoVol]

\* mapping lists: a run of letters from 'a', up to all of 'a'..'z', with at
\* most one letter left out, in either order, with or without another device
AllocInputs ==
  UNION { { LetterRun(k, hole),
            Reversed(LetterRun(k, hole)),
            << OtherMapping >> \o LetterRun(k, hole),
            Reversed(LetterRun(k, hole)) \o << OtherMapping >> } :
          k \in 0..(EndDevLetter - FirstDevLetter + 1),
          hole \in (FirstDevLetter - 1)..EndDevLetter }

InitAlloc ==
  /\ InitEnv
  /\ InitMon
  /\ faults = FALSE
  /\ proc = [p \in Procs |-> IdleProc]
  /\ call \in { [fn |-> "findFreeBlockDevice", mappings |-> m, done |-> FALSE,
                 dev |-> NoDev, err |-> Nil] : m \in AllocInputs }

\* the call returns
AllocCall ==
  /\ call.fn = "findFreeBlockDevice"
  /\ ~call.done
  /\ LET got == findFreeBlockDevice(call.mappings) IN
     call' = [call EXCEPT !.done = TRUE, !.dev = got.dev, !.err = got.err]
  /\ UNCHANGED << envVars, faults, proc, monVars >>

NextAlloc == AllocCall

SpecAlloc == InitAlloc /\ [][NextAlloc]_vars

\* --------------------------------- getVolumeWithName called on its own
\* the remote tag set: each volume of the model untagged or tagged with one
\* of the names, and up to MaxForeign more volumes tagged with the name asked
InitResolve ==
  /\ volTag \in [VolIds -> {NoTag} \cup Names]
  /\ volState = [v \in VolIds |-> IF volTag[v] = NoTag THEN "absent"
                                                       ELSE "available"]
  /\ att = [v \in VolIds |-> NoAtt]
  /\ devNodes = {}
  /\ mountDirs = {}
  /\ mounts = {}
  /\ InitMon
  /\ faults = FALSE
  /\ proc = [p \in Procs |-> IdleProc]
  /\ call \in { [fn |-> "getVolumeWithName", name |-> n, nForeign |-> k,
                 done |-> FALSE, vol |-> NoVol, err |-> Nil] :
                n \in Names, k \in 0..MaxForeign }

\* getVolumeWithName: the value-filtered query answers with one page
ResolveCall ==
  /\ call.fn = "getVolumeWithName"
  /\ ~call.done
  /\ \E pg \in TagPages(TaggedWith(call.name), call.nForeign) :
       LET got == getVolumeWithTag(pg) IN
       call' = [call EXCEPT !.done = TRUE, !.vol = got.vol, !.err = got.err]
  /\ UNCHANGED << envVars, faults, proc, monVars >>

NextResolve == ResolveCall

SpecResolve == InitResolve /\ [][NextResolve]_vars

\* ------------------- two callers attach two volumes on one instance
\* the name each caller works on
ConcName(p) == IF p = 1 THEN NameV ELSE NameW

InitConc ==
  /\ volState = [v \in VolIds |-> IF v <= 2 THEN "available" ELSE "absent"]
  /\ volTag = [v \in VolIds |-> IF v = 1 THEN NameV
                                ELSE IF v = 2 THEN NameW ELSE NoTag]
  /\ att = [v \in VolIds |-> NoAtt]
  /\ devNodes = {}
  /\ mountDirs = {}
  /\ mounts = {}
  /\ InitMon
  /\ faults = FALSE
  /\ proc = [p \in Procs |-> IdleProc]
  /\ call = NoCall

\* every step of caller p inside Format or Mount
StepConc(p) ==
  \/ InstID(p) \/ Resolve(p) \/ InstInfo(p) \/ FindDev(p)
  \/ Attach(p) \/ AttachTick(p) \/ Mkfs(p) \/ DetachCall(p) \/ DetachTick(p)
  \/ Mkdir(p) \/ OsMount(p)
  \/ SyncTimeout(p)

\* what the service and the OS do on their own to attachments
EnvConc ==
  \/ \E v \in VolIds : EnvAttached(v)
  \/ \E v \in VolIds : EnvDeviceAppears(v)
  \/ \E v \in VolIds : EnvDetached(v)
  \/ \E d \in devNodes : EnvDeviceDisappears(d)

NextConc ==
  \/ \E p \in Procs, op \in {"Format", "Mount"} :
       StartOp(p, op, ConcName(p), gigabyteAsBytes, ShortTimeout)
  \/ \E p \in Procs : Return(p)
  \/ \E p \in Procs : StepConc(p)
  \/ EnvConc

SpecConc == InitConc /\ [][NextConc]_vars

\* ------------------------------- one synchronizer called on its own
\* the device the attach and detach synchronizers are called with
SyncDevice == "/dev/xvdb"

\* the state an attach, detach or delete synchronizer is called in, and the
\* call itself, with a timeout of t
InitSync ==
  \E op \in SyncOps, t \in 1..MaxSyncTimeout :
    /\ volState = [v \in VolIds |->
         IF v # 1 \/ op = "createVolumeSynchronously" THEN "absent"
         ELSE IF op = "detachVolumeSynchronously" THEN "in-use"
         ELSE "available"]
    /\ volTag = [v \in VolIds |-> NoTag]
    /\ att = [v \in VolIds |->
         IF v = 1 /\ op = "detachVolumeSynchronously"
           THEN [state |-> "attached", dev |-> SyncDevice]
           ELSE NoAtt]
    /\ devNodes = IF op = "detachVolumeSynchronously" THEN {SyncDevice} ELSE {}
    /\ mountDirs = {}
    /\ mounts = {}
    /\ InitMon
    /\ faults \in BOOLEAN
    /\ proc = [p \in Procs |->
         IF p # 1 THEN IdleProc
         ELSE [IdleProc EXCEPT
                 !.pc = FirstPc(op), !.op = op, !.timeout = t,
                 !.awsVolume = IF op = "createVolumeSynchronously"
                                 THEN NoVol ELSE 1,
                 !.device = IF op \in {"attachVolumeSynchronously",
                                       "detachVolumeSynchronously"}
                              THEN SyncDevice ELSE NoDev]]
    /\ call = NoCall

\* every step of a synchronizer
StepSync(p) ==
  \/ CreateCall(p) \/ CreateTick(p)
  \/ Attach(p) \/ AttachTick(p)
  \/ DetachCall(p) \/ DetachTick(p)
  \/ DeleteCall(p) \/ DeleteCheck(p) \/ DeleteTick(p)
  \/ SyncTimeout(p)

NextSync ==
  \/ StepSync(1)
  \/ Env

SpecSync == InitSync /\ [][NextSync]_vars

\* ------------------------------------ templateFSCmd called on its own
\* the loop of templateFSCmd from index idx (counted from 1) on
RECURSIVE TemplateScan(_, _, _)
TemplateScan(fscmd, devicePath, idx) ==
  IF idx > Len(fscmd) THEN fscmd
  ELSE IF fscmd[idx] = "%"
    THEN IF idx < Len(fscmd) /\ fscmd[idx + 1] = "%"
           THEN TemplateScan(fscmd, devicePath, idx + 2)
           ELSE TemplateScan(SubSeq(fscmd, 1, idx - 1) \o devicePath
                               \o SubSeq(fscmd, idx + 1, Len(fscmd)),
                             devicePath, idx + 1)
    ELSE TemplateScan(fscmd, devicePath, idx + 1)

templateFSCmd(fscmd, devicePath) == TemplateScan(fscmd, devicePath, 1)

\* every template of up to MaxTemplateLen characters over '%', 'e' and ' ',
\* and the two templates "echo %% %" and "mkfs.ext4 -m0 %"
Templates ==
  UNION { [1..n -> {"%", "e", " "}] : n \in 0..MaxTemplateLen }
    \cup { << "e", "c", "h", "o", " ", "%", "%", " ", "%" >>,
           << "m", "k", "f", "s", ".", "e", "x", "t", "4", " ",
              "-", "m", "0", " ", "%" >> }

\* device paths, none with a '%'
DevicePaths == { << >>, << "d" >>, << "/", "d", "e", "v", "/", "x", "v", "d", "b" >> }

InitTemplate ==
  /\ InitEnv
  /\ InitMon
  /\ faults = FALSE
  /\ proc = [p \in Procs |-> IdleProc]
  /\ call \in { [fn |-> "templateFSCmd", fscmd |-> t, devicePath |-> d,
                 done |-> FALSE, out |-> << >>] :
                t \in Templates, d \in DevicePaths }

\* the call returns
TemplateCall ==
  /\ call.fn = "templateFSCmd"
  /\ ~call.done
  /\ call' = [call EXCEPT !.done = TRUE,
                          !.out = templateFSCmd(call.fscmd, call.devicePath)]
  /\ UNCHANGED << envVars, faults, proc, monVars >>

SpecTemplate == InitTemplate /\ [][TemplateCall]_vars

\* ---------------------------------------- MountPath called on its own
\* every volume name of up to MaxNameLen characters over 't', '/' and '.',
\* and the two names of above
PathNames == UNION { [1..n -> {"t", "/", "."}] : n \in 0..MaxNameLen } \cup Names

\* the driver is called twice with one name, whatever the mount directory
InitPath ==
  /\ InitMon
  /\ faults = FALSE
  /\ proc = [p \in Procs |-> IdleProc]
  /\ volState = [v \in VolIds |-> "absent"]
  /\ volTag = [v \in VolIds |-> NoTag]
  /\ att = [v \in VolIds |-> NoAtt]
  /\ devNodes = {}
  /\ mounts = {}
  /\ \E name \in PathNames :
       /\ mountDirs \in {{}, {<< mountpath, "/" >> \o name}}
       /\ call = [fn |-> "MountPath", name |-> name, calls |-> 0,
                  first |-> [path |-> << >>, err |-> Nil],
                  out |-> [path |-> << >>, err |-> Nil]]

\* one call of Driver.MountPath returns
MountPathCall ==
  /\ call.fn = "MountPath"
  /\ call.calls < 2
  /\ call' = [call EXCEPT !.calls = call.calls + 1,
                          !.first = IF call.calls = 0 THEN MountPath(call.name)
                                    ELSE call.first,
                          !.out = MountPath(call.name)]
  /\ UNCHANGED << envVars, faults, proc, monVars >>

SpecPath == InitPath /\ [][MountPathCall]_vars

\* ---------------------------------------- mkfsVolume called on its own
InitMkfs ==
  /\ InitEnv
  /\ InitMon
  /\ faults = TRUE
  /\ proc = [p \in Procs |-> IdleProc]
  /\ call \in { [fn |-> "mkfsVolume", run |-> run, timeout |-> t,
                 done |-> FALSE, out |-> Nil] :
                run \in Runs(TRUE, 0), t \in 1..MaxRun }

\* the call returns
MkfsCall ==
  /\ call.fn = "mkfsVolume"
  /\ ~call.done
  /\ call' = [call EXCEPT !.done = TRUE,
                          !.out = mkfsVolume(call.run, call.timeout)]
  /\ UNCHANGED << envVars, faults, proc, monVars >>

SpecMkfs == InitMkfs /\ [][MkfsCall]_vars

\* ------------------------------- Create and Destroy of one name, repeated
StartNames(p, op) ==
  /\ op = "Create" =>
       Cardinality({v \in VolIds : volState[v] # "absent"}) < MaxNameCreates
  /\ Invoke(p, op, NameV, gigabyteAsBytes, OpTimeout(op))

StepNames(p) ==
  \/ CreateCall(p) \/ CreateTick(p) \/ Tag(p)
  \/ Resolve(p) \/ Untag(p) \/ DeleteCall(p) \/ DeleteCheck(p) \/ DeleteTick(p)
  \/ SyncTimeout(p)

EnvNames ==
  \E v \in VolIds : EnvVolumeAvailable(v) \/ EnvDeleteProgress(v)

NextNames ==
  \/ \E op \in {"Create", "Destroy"} : StartNames(1, op)
  \/ Return(1)
  \/ StepNames(1)
  \/ EnvNames

SpecNames == Init /\ [][NextNames]_vars

\* --------------------------------------------------------- properties
\* C1: after Create and then Destroy of a name have both returned nil, no
\* volume carries the identity tag with that name and an Exists that returns
\* without error returns false; between the successful Create and the
\* Destroy, an Exists that returns without error returns true.
C1_RoundTrip ==
  /\ \A n \in Names : destroyed[n] => TaggedWith(n) = {}
  /\ \A p \in Procs :
       proc[p].pc = "done" /\ proc[p].op = "Exists" /\ proc[p].err = Nil =>
         /\ created[proc[p].name] => proc[p].res = TRUE
         /\ destroyed[proc[p].name] => proc[p].res = FALSE

\* C2: in a run that starts with nothing tagged with the name, in which no
\* wait times out and no remote or OS call fails, each of Create, Format,
\* Mount, Unmount, Destroy, called in this order, returns nil, and after the
\* last of them no volume is tagged with the name, none is attached and no
\* mount directory is left.
C2_Lifecycle ==
  /\ \A p \in Procs :
       /\ clean /\ proc[p].pc = "done" /\ proc[p].op \in SeqToSet(LifeSeq)
       => proc[p].err = Nil
  /\ clean /\ life = Len(LifeSeq) =>
       /\ TaggedWith(NameV) = {}
       /\ \A v \in VolIds : att[v].state = "none"
       /\ mountDirs = {}

\* C3: when two invocations of Mount or Format for two different volumes run
\* at the same time on one instance, an invocation never issues an attach
\* request naming the device path that the other, still running, invocation
\* has named in its attach request.
C3_DistinctDevices ==
  [][\A p \in Procs : \A q \in Procs \ {p} :
       /\ proc[p].attachReq = NoDev /\ proc'[p].attachReq # NoDev
       /\ proc[q].pc \notin {"idle", "done", "panic"}
       => proc'[p].attachReq # proc[q].attachReq]_vars

\* C4: a synchronizer whose initiating call succeeded and that never observed
\* the target state ends only by returning the timeout error, and no later
\* than the timeout after its invocation; it never returns success, another
\* error, or dies.
C4_TimeoutOnly ==
  \A p \in Procs :
    /\ proc[p].op \in SyncOps /\ proc[p].pc \in {"done", "panic"}
    /\ proc[p].initOk /\ ~proc[p].sawTarget
    => /\ proc[p].pc = "done"
       /\ proc[p].err = errTimeout
       /\ proc[p].elapsed <= proc[p].timeout + AttachPoll

\* C5: Unmount issues the detach call only after an unmount attempt has
\* succeeded or been tolerated and the mount directory is gone, so that at
\* the detach the directory is neither mounted nor present; once three
\* unmount attempts have failed it returns the combined error and has issued
\* no detach.
C5_DetachAfterTeardown ==
  \A p \in Procs : proc[p].op = "Unmount" =>
    /\ proc[p].detachReq # NoDev =>
         /\ proc[p].umOk /\ proc[p].rmOk
         /\ MountPath(proc[p].name).path \notin mounts
         /\ MountPath(proc[p].name).path \notin mountDirs
    /\ proc[p].pc = "done" /\ proc[p].retries >= 3 =>
         /\ proc[p].detachReq = NoDev
         /\ proc[p].err = Wrap(errUmount, errUnmountRetry)

\* an Unmount that detached after two failed unmount attempts and returned nil
C5_Witness ==
  \E p \in Procs :
    /\ proc[p].pc = "done" /\ proc[p].op = "Unmount"
    /\ proc[p].detachReq # NoDev /\ proc[p].retries = 2
    /\ proc[p].err = Nil

\* C6: one invocation of Unmount calls the OS unmount primitive at most
\* three times.
C6_UnmountBounded ==
  \A p \in Procs : proc[p].op = "Unmount" => proc[p].unmounts <= 3

\* C7: getVolumeWithName returns the id of the volume tagged with the name
\* when exactly one volume is, fails with the zero-match error when none is,
\* and with two or more fails with an error different from the zero-match
\* error, returning no id.
C7_IdentityResolution ==
  call.fn = "getVolumeWithName" /\ call.done =>
    LET ours == TaggedWith(call.name)
        n == Cardinality(ours) + call.nForeign IN
    /\ n = 1 => /\ call.err = Nil
                /\ \/ ours = {call.vol}
                   \/ ours = {} /\ call.vol = ForeignVol
    /\ n = 0 => call.vol = NoVol /\ call.err = errExpectedOne(0)
    /\ n >= 2 => /\ call.vol = NoVol
                 /\ call.err # Nil
                 /\ call.err # errExpectedOne(0)

\* a resolution that failed with two volumes of the model tagged with the name
C7_Witness ==
  /\ call.fn = "getVolumeWithName" /\ call.done
  /\ Cardinality(TaggedWith(call.name)) = 2
  /\ call.err = errExpectedOne(2 + call.nForeign)

\* C8: findFreeBlockDevice returns the first of /dev/xvda .. /dev/xvdy that
\* is the device name of no mapping, never a name that is in the list, and
\* fails, returning no path, exactly when all 25 are in the list.
C8_DeviceAllocation ==
  call.fn = "findFreeBlockDevice" /\ call.done =>
    LET names == {call.mappings[i].DeviceName : i \in 1..Len(call.mappings)}
        free == {c \in 97..121 : ("/dev/xvd" \o Alphabet[c - 96]) \notin names} IN
    /\ call.dev \notin names
    /\ (free = {}) <=> (call.err # Nil)
    /\ call.err # Nil => call.dev = NoDev
    /\ free # {} =>
         call.dev = "/dev/xvd" \o
                    Alphabet[(CHOOSE c \in free : \A d \in free : c <= d) - 96]

\* a call that failed on a list holding all 25 paths and not /dev/xvdz
C8_Witness ==
  /\ call.fn = "findFreeBlockDevice" /\ call.done
  /\ Len(call.mappings) = 25
  /\ call.err = errNoFreeDevice

\* C9: when Format's format command has failed, Format has issued a detach
\* of the volume and device it attached before it returns, and it returns
\* the format command's error whatever the detach did.
C9_FormatCompensation ==
  \A p \in Procs :
    proc[p].pc = "done" /\ proc[p].op = "Format" /\ proc[p].mkfsErr # Nil =>
      /\ proc[p].detachReq # NoDev
      /\ proc[p].detachReq = proc[p].attachReq
      /\ proc[p].detachVol = proc[p].awsVolume
      /\ proc[p].err = errMkfs

\* a Format whose format command failed and whose detach then timed out
C9_Witness ==
  \E p \in Procs :
    /\ proc[p].pc = "done" /\ proc[p].op = "Format"
    /\ proc[p].mkfsErr # Nil /\ proc[p].syncErr = errTimeout

\* C10: whenever Format returns nil, its final detach has completed without
\* error and the volume is no longer attached to the instance.
C10_FormatComplete ==
  \A p \in Procs :
    proc[p].pc = "done" /\ proc[p].op = "Format" /\ proc[p].err = Nil =>
      /\ proc[p].syncErr = Nil
      /\ att[proc[p].detachVol].state = "none"

\* C11: for a size below one gigabyte or not a whole multiple of 1024^3,
\* Create returns the error of getVolumeSizeInGB without having issued the
\* create-volume request (which precedes every other request of Create), and
\* Validate, which issues no request at all, returns that error once the
\* generic check of the options has passed; for any other size the size in
\* gigabytes that is computed is size / 1024^3.
C11_SizeValidation ==
  \A p \in Procs :
    proc[p].pc = "done" /\ proc[p].op \in {"Create", "Validate"} =>
      LET size == proc[p].size
          low == size < 1073741824
          whole == size % 1073741824 = 0 IN
      /\ low => proc[p].err \in {errMinSize} \cup
                  (IF proc[p].op = "Validate" THEN {errOptions} ELSE {})
      /\ ~low /\ ~whole => proc[p].err \in {errWholeGB} \cup
                  (IF proc[p].op = "Validate" THEN {errOptions} ELSE {})
      /\ low \/ ~whole \/ proc[p].op = "Validate" =>
           /\ ~proc[p].createReq
           /\ proc[p].awsVolume = NoVol
      /\ ~low /\ whole /\ proc[p].err \notin {errOptions} /\ proc[p].op = "Validate" =>
           proc[p].gb * 1073741824 = size
      /\ ~low /\ whole /\ proc[p].op = "Create" =>
           proc[p].createReq /\ proc[p].gb * 1073741824 = size

\* a Create refused for a size that is not a whole number of gigabytes
C11_Witness ==
  \E p \in Procs :
    /\ proc[p].pc = "done" /\ proc[p].op = "Create"
    /\ proc[p].size = 1073741825 /\ proc[p].err = errWholeGB

\* C12: whatever the number of volumes that carry the identity tag, an Exists
\* that returns without error returns true exactly when some remote volume
\* carries the identity tag with the name asked for.
C12_ExistsExact ==
  \A p \in Procs :
    proc[p].pc = "done" /\ proc[p].op = "Exists" /\ proc[p].err = Nil =>
      (proc[p].res <=> TaggedWith(proc[p].name) # {})

\* what a left-to-right scan gives that puts one '%' for every "%%" and the
\* device path for every other '%'
RECURSIVE Templated(_, _)
Templated(t, d) ==
  IF t = << >> THEN << >>
  ELSE IF Head(t) # "%" THEN << Head(t) >> \o Templated(Tail(t), d)
  ELSE IF Len(t) >= 2 /\ t[2] = "%" THEN << "%" >> \o Templated(Tail(Tail(t)), d)
  ELSE d \o Templated(Tail(t), d)

\* C13: for every template and every device path without '%', templateFSCmd
\* returns the template with every single '%' replaced by the device path
\* and every "%%" by one '%', scanning from the left.
C13_Templating ==
  call.fn = "templateFSCmd" /\ call.done =>
    call.out = Templated(call.fscmd, call.devicePath)

\* C14: when the response of the initiating request of create, attach or
\* detach already reports the target state (available, attached, detached),
\* the synchronizer returns success in that very step: no timer is started
\* and no poll interval is waited for.
C14_FastPath ==
  [][\A p \in Procs :
       (/\ proc[p].op \in SyncOps
        /\ proc[p].pc \in {"create", "attach", "detach"}
        /\ proc'[p].sawTarget)
         => (/\ proc'[p].pc = "done"
             /\ proc'[p].err = Nil
             /\ proc'[p].elapsed = 0)]_vars

\* C15: in an Unmount whose name, instance and device resolved, an unmount
\* call answered EINVAL (not mounted) or ENOENT counts no retry and leads to
\* the removal of the mount directory; the removal leads to the detach; and
\* the Unmount returns nil when that detach completes.
C15_AlreadyUnmounted ==
  [][\A p \in Procs :
       LET r == proc[p]
           q == proc'[p]
           tolerated == {"EINVAL", "ENOENT"} IN
       r.op = "Unmount" =>
         /\ (r.pc = "retry" /\ q.unmounts = r.unmounts + 1
               /\ q.umLast \in tolerated)
              => (q.retries = r.retries /\ q.pc = "rmdir")
         /\ (r.pc = "rmdir" /\ r.umLast \in tolerated /\ q.pc # "rmdir")
              => q.pc = "detach"
         /\ (r.pc \in {"detach", "detach_poll"} /\ r.umLast \in tolerated
               /\ q.pc = "done" /\ q.syncErr = Nil)
              => q.err = Nil]_vars

\* filepath.Join of the mount root and one path element
JoinedTo(root, elem) ==
  IF elem = << "." >> THEN << root >> ELSE << root, "/" >> \o elem

\* C16: MountPath returns the same result on every call with one name; for a
\* name 'tenant/volume' that it accepts the result is the mount root joined
\* with 'tenant.volume'; and a call leaves the remote and the local state as
\* they were.
C16_MountPathPure ==
  [][(call.fn = "MountPath" /\ call'.calls = call.calls + 1) =>
       /\ UNCHANGED envVars
       /\ call'.calls = 2 => call'.out = call'.first
       /\ call'.out.err = Nil =>
            \E i \in 1..Len(call.name) :
              /\ call.name[i] = "/"
              /\ call'.out.path =
                   JoinedTo(mountpath,
                            SubSeq(call.name, 1, i - 1) \o << "." >>
                              \o SubSeq(call.name, i + 1, Len(call.name)))]_vars

\* the second call with "t/v" has returned /mnt/ebs/t.v
C16_Witness ==
  /\ call.fn = "MountPath"
  /\ call.calls = 2
  /\ call.name = NameV
  /\ call.out = [path |-> << mountpath, "/", "t", ".", "v" >>, err |-> Nil]

\* C17: mkfsVolume returns nil when the command exits with status 0 before
\* the timeout, and returns an error when the command has not finished at
\* the timeout or exits with another status; every call returns.
C17_MkfsBounded ==
  call.fn = "mkfsVolume" =>
    /\ call.done =>
         (call.out = Nil <=>
            (call.run.duration < call.timeout /\ call.run.status = 0))
    /\ ~call.done => ENABLED MkfsCall

\* a command that was still running at the timeout, its reported exit
\* status 0: mkfsVolume has returned the error
C17_Witness ==
  /\ call.fn = "mkfsVolume"
  /\ call.done
  /\ call.run.duration >= call.timeout
  /\ call.run.killed = 0
  /\ call.out = errMkfs

\* C18: in the poll loop of each of the four synchronizers, a status query
\* that fails (other than with NotFound while polling for a deletion) does
\* not end the wait: the synchronizer neither returns nor dies on that tick,
\* it stays in its loop.
C18_TransientSwallowed ==
  [][\A p \in Procs :
       LET r == proc[p]
           q == proc'[p] IN
       (/\ r.op \in SyncOps
        /\ r.pc \in {"create_poll", "attach_poll", "detach_poll", "delete_poll"}
        /\ q # r
        /\ q.lastQ \in {errRemote, errNotFound}
        /\ ~(r.pc = "delete_poll" /\ q.lastQ = errNotFound))
         => q.pc = r.pc]_vars

\* C19: a status query of deleteVolumeSynchronously, the first check after
\* the delete request or one of a poll tick, that fails with NotFound makes
\* it return nil; one that fails with another error does not end the wait.
C19_DeleteNotFound ==
  [][\A p \in Procs :
       LET r == proc[p]
           q == proc'[p] IN
       (/\ r.op = "deleteVolumeSynchronously"
        /\ r.pc \in {"delete_check", "delete_poll"}
        /\ q # r)
         => /\ q.lastQ = errNotFound => (q.pc = "done" /\ q.err = Nil)
            /\ q.lastQ = errRemote => q.pc = "delete_poll"]_vars

\* C20: on a poll tick of any synchronizer whose status query succeeds and
\* reports the target state (available for create and detach, attached for
\* attach, deleted for delete), the synchronizer returns success on that
\* tick.
C20_PollSuccess ==
  [][\A p \in Procs :
       LET r == proc[p]
           q == proc'[p] IN
       (/\ r.op \in SyncOps
        /\ q # r
        /\ \/ r.pc \in {"create_poll", "detach_poll"} /\ q.lastQ = "available"
           \/ r.pc = "attach_poll" /\ q.lastQ = "attached"
           \/ r.pc = "delete_poll" /\ q.lastQ = "deleted")
         => (q.pc = "done" /\ q.err = Nil)]_vars

\* C21: attachVolumeSynchronously returns success only when the device path
\* exists in the OS; on a poll tick that finds no device path it neither
\* returns success nor stops polling.
C21_AttachNeedsDevice ==
  [][\A p \in Procs :
       LET r == proc[p]
           q == proc'[p] IN
       (/\ r.op = "attachVolumeSynchronously"
        /\ r.pc \in {"attach", "attach_poll"}
        /\ q # r)
         => /\ (q.pc = "done" /\ q.err = Nil) => r.device \in devNodes
            /\ (r.pc = "attach_poll" /\ r.device \notin devNodes)
                 => (q.pc = "attach_poll" \/ q.err = errTimeout)]_vars

\* C22: detachVolumeSynchronously returns success only when the device path
\* no longer exists in the OS; on a poll tick that still finds the device
\* path it neither returns success nor stops polling.
C22_DetachNeedsNoDevice ==
  [][\A p \in Procs :
       LET r == proc[p]
           q == proc'[p] IN
       (/\ r.op = "detachVolumeSynchronously"
        /\ r.pc \in {"detach", "detach_poll"}
        /\ q # r)
         => /\ (q.pc = "done" /\ q.err = Nil) => r.device \notin devNodes
            /\ (r.pc = "detach_poll" /\ r.device \in devNodes)
                 => (q.pc = "detach_poll" \/ q.err = errTimeout)]_vars

\* C23: a Destroy has issued its delete call only after its tag removal
\* succeeded, so that from the delete call on, whether the wait succeeds,
\* fails or times out, the volume does not carry the name any more; a
\* Destroy whose name resolution or tag removal failed has issued no delete
\* call.
C23_UntagBeforeDelete ==
  \A p \in Procs :
    proc[p].op = "Destroy" /\ proc[p].deleteReq # NoVol =>
      /\ proc[p].untagged
      /\ proc[p].deleteReq = proc[p].awsVolume
      /\ proc[p].deleteReq \notin TaggedWith(proc[p].name)

\* a Destroy whose delete wait timed out has returned
C23_Witness ==
  \E p \in Procs :
    /\ proc[p].op = "Destroy"
    /\ proc[p].pc = "done"
    /\ proc[p].deleteReq # NoVol
    /\ proc[p].err = Wrap("failed to destroy the AWS EBS volume", errTimeout)

\* C24: a Mount issues no detach and no delete; when its attach wait ends
\* (success, timeout, or the death of the caller in the poll), it goes on to
\* the directory or is over, and every later step either goes on or
\* returns, and none of these steps changes the remote state: a Mount that
\* fails once the attach request is out leaves the attachment as it is and
\* returns the error.
C24_MountNoRollback ==
  [][\A p \in Procs :
       LET r == proc[p]
           q == proc'[p] IN
       (r.op = "Mount" /\ q # r /\ q.op = "Mount") =>
         /\ q.detachReq = NoDev
         /\ q.deleteReq = NoVol
         /\ (r.pc = "attach_poll" /\ q.pc # "attach_poll")
              => (q.pc \in {"mkdir", "done", "panic"}
                    /\ UNCHANGED << volState, volTag, att >>)
         /\ r.pc = "mkdir"
              => (q.pc \in {"osmount", "done"} /\ UNCHANGED << volState, volTag, att >>)
         /\ r.pc = "osmount"
              => (q.pc = "done" /\ UNCHANGED << volState, volTag, att >>)]_vars

\* a Mount whose OS mount call failed has returned, the volume attached
C24_Witness ==
  \E p \in Procs :
    /\ proc[p].op = "Mount"
    /\ proc[p].pc = "done"
    /\ proc[p].err = errMount
    /\ proc[p].awsVolume # NoVol
    /\ att[proc[p].awsVolume].state = "attached"

\* C25: whatever Create and Destroy operations have been called, at most
\* one volume carries the identity tag with a given name.
C25_UniqueName ==
  \A name \in Names : Cardinality(TaggedWith(name)) <= 1

====
